---- MODULE Spec2Model ----
(***************************************************************************)
(* Room/session lifecycle of flow-server: the signaling handlers of        *)
(* SocketService (src/services/socketService.js) driving SessionService    *)
(* (src/unnamed/part_001, lines 1-309).                                    *)
(*                                                                         *)
(* Execution model (Node.js): one handler or timer callback runs at a      *)
(* time; the microtasks it queues (continuations of `await` on values that *)
(* are already settled) all run before the next socket event, timer or     *)
(* engine response is dispatched.  An action below is therefore one        *)
(* macrotask with its microtasks.  A handler that awaits the media engine  *)
(* is split at that await: the request stays in `pending` until the        *)
(* engine answers (resolve or reject, chosen nondeterministically).        *)
(*                                                                         *)
(* `watch` and `log` observe the program and never influence it: log holds *)
(* the effects of the step just taken, in program order, so that the order *)
(* of calls inside one handler can be stated.                              *)
(***************************************************************************)
EXTENDS Integers, Sequences, FiniteSets, TLC

VARIABLES
    rooms,      \* SessionService.rooms : room code -> room object (NoRoom when absent)
    handles,    \* engine handles ever created, by id: kind, number of close() calls, creating user
    user,       \* socket.user of the socket in each connection slot (its uid, NoUser before authenticate)
    subs,       \* socket.io broadcast groups each socket has joined (socket.join / socket.leave)
    timers,     \* pending setTimeout sweeps, oldest first; each tagged with the value passed to leave()
    pending,    \* handlers suspended at an await on the media engine
    watch,      \* the handlers under observation (fixed by the specification, never written)
    log         \* what the most recent step did, in program order, when its handler is
                \* under observation (<<>> otherwise): run header, close(), delete, emit,
                \* callback, console.info

vars == <<rooms, handles, user, subs, timers, pending, watch, log>>

(***************************************************************************)
(* Bounds of the model.                                                    *)
(***************************************************************************)
MaxRooms == 2        \* workers (room objects) ever created
MaxTransports == 2   \* transports ever created
MaxProducers == 2    \* producers ever created
MaxConsumers == 1    \* consumers ever created
MaxTimers == 2       \* sweeps pending at the same time
MaxPending == 1      \* handlers suspended at the engine at the same time, the
                     \* createRoom calls of other users not counted
MaxCreating == 2     \* createRoom calls suspended at the same time
MaxThrows == 1       \* close() of a handle may throw in its first MaxThrows calls only

Conns == {"c1", "c2"}          \* connection slots
Uids == {"u1", "u2"}           \* uids of the users table
Codes == {1, 2}                \* room codes the generator can draw
CodeSeq == <<1, 2>>            \* `for (const roomId in this.rooms)`: integer-like keys, ascending
Directions == {"send", "recv"}
Kinds == {"audio", "video"}

NoUser == "none"
NoConn == "gone"               \* the socket of a suspended handler has disconnected
Undefined == "undefined"       \* the JavaScript value undefined
Tokens == Uids \cup {"bad"}    \* a token signed for a uid of the users table, or one that fails

(***************************************************************************)
(* JavaScript values handed to SessionService.  The handlers pass          *)
(* `socket.user.uid`, a primitive; SessionService reads                    *)
(* `const { uid, nickname } = user` from what it is handed.  A primitive   *)
(* has no property uid, so the destructuring yields undefined; an object   *)
(* (a row of the users table) yields its uid.                              *)
(***************************************************************************)
PrimitiveArg(p) == [value |-> p, uid |-> Undefined]
\* the expression `socket.user.uid` of the handlers
SocketUserUid(c) == PrimitiveArg(user[c])

NoRoom ==
    [worker |-> 0, creatorUid |-> "-", participants |-> {},
     transports |-> <<>>, producers |-> <<>>, consumers |-> <<>>]

NewRoom(creatorUid, worker) ==
    [worker |-> worker, creatorUid |-> creatorUid, participants |-> {},
     transports |-> <<>>, producers |-> <<>>, consumers |-> <<>>]

Registered(rs, roomId) == rs[roomId].worker # 0

\* one entry of `log`
Ev(ev, name, code, id, to, uid) ==
    [ev |-> ev, name |-> name, code |-> code, id |-> id, to |-> to, uid |-> uid]
EvRun(op, c, uid, roomId) == Ev("run", op, roomId, 0, {c} \ {NoConn}, uid)
EvClose(kind, id) == Ev("close", kind, 0, id, {}, "-")
EvDelete(roomId, worker) == Ev("delete", "room", roomId, worker, {}, "-")
EvEmit(name, roomId, id, to, uid) == Ev("emit", name, roomId, id, to, uid)
EvCallback(c, value, id) == Ev("callback", value, 0, id, {c} \ {NoConn}, "-")
EvInfo(name, roomId, worker, uid) == Ev("info", name, roomId, worker, {}, uid)
EvUnhandled(name) == Ev("unhandledRejection", name, 0, 0, {}, "-")
EvError(message) == Ev("error", message, 0, 0, {}, "-")
\* close() of handle id threw
EvThrow(id) == Ev("throw", "close", 0, id, {}, "-")
\* a call into the media engine on handle or producer id, with what it returned
EvEngine(name, id, result) == Ev("engine", name, 0, id, {}, result)

\* io.to(roomId): the sockets that joined the broadcast group roomId
Subscribers(sb, roomId) == {c \in Conns : roomId \in sb[c]}

CountKind(hs, kind) == Cardinality({h \in 1..Len(hs) : hs[h].kind = kind})
\* a handle the engine has just created; `by` notes the socket.user.uid of the
\* request that created it (an observation: the program keeps no such field)
NewHandle(kind, by) == [kind |-> kind, closes |-> 0, by |-> by]

\* handle.close() called n times on each handle of ids
CloseEach(hs, ids, n) ==
    [h \in 1..Len(hs) |->
        IF \E i \in 1..Len(ids) : ids[i] = h
        THEN [hs[h] EXCEPT !.closes = @ + n]
        ELSE hs[h]]

IdsOf(entries) == [i \in 1..Len(entries) |-> entries[i].id]
ClosesOf(kind, ids) == [i \in 1..Len(ids) |-> EvClose(kind, ids[i])]

(***************************************************************************)
(* SessionService.  A world w is the part of the state these methods read  *)
(* and write: [rooms, handles, subs, log].                                 *)
(***************************************************************************)

\* closeRoom variant that forgets `delete this.rooms[roomId]`
closeRoom_NoDelete(w, roomId) ==
    LET room == w.rooms[roomId]
        tids == IdsOf(room.transports)
    IN  IF room.worker = 0 THEN w
        ELSE [w EXCEPT
                !.handles = CloseEach(CloseEach(w.handles, tids, 1), <<room.worker>>, 1),
                !.log = w.log \o ClosesOf("transport", tids)
                              \o <<EvClose("worker", room.worker)>>]

closeRoom(w, roomId) ==
    LET room == w.rooms[roomId]
        tids == IdsOf(room.transports)
    IN  IF room.worker = 0 THEN w
        ELSE [w EXCEPT
                !.handles = CloseEach(CloseEach(w.handles, tids, 1), <<room.worker>>, 1),
                !.rooms = [w.rooms EXCEPT ![roomId] = NoRoom],
                !.log = w.log \o ClosesOf("transport", tids)
                              \o <<EvClose("worker", room.worker)>>
                              \o <<EvDelete(roomId, room.worker)>>]

\* join(roomId, user), called for a registered room
join(w, roomId, userArg) ==
    [w EXCEPT
        !.rooms = [w.rooms EXCEPT ![roomId].participants = @ \cup {userArg.uid}],
        !.log = w.log \o <<EvEmit("userJoined", roomId, 0, Subscribers(w.subs, roomId), userArg.uid)>>]

\* the entries of one room that clearUserData closes, in the order it closes them
OwnedInRoom(room, uid) ==
    LET pick(kind, entries) ==
            LET own == SelectSeq(entries, LAMBDA e : e.uid = uid)
            IN  [i \in 1..Len(own) |-> [kind |-> kind, id |-> own[i].id]]
    IN  pick("transport", room.transports) \o pick("producer", room.producers)
            \o pick("consumer", room.consumers)

RECURSIVE OwnedFrom(_, _, _)
OwnedFrom(rs, uid, i) ==
    IF i > Len(CodeSeq) THEN <<>>
    ELSE OwnedInRoom(rs[CodeSeq[i]], uid) \o OwnedFrom(rs, uid, i + 1)

\* n times the close of one entry
RECURSIVE Repeat(_, _)
Repeat(e, n) == IF n = 0 THEN <<>> ELSE <<e>> \o Repeat(e, n - 1)

RECURSIVE RestCloses(_, _, _)
RestCloses(owned, j, n) ==
    IF j > Len(owned) THEN <<>>
    ELSE Repeat(EvClose(owned[j].kind, owned[j].id), n) \o RestCloses(owned, j + 1, n)

(***************************************************************************)
(* clearUserData(user), started n times back to back by one leave() that   *)
(* does not await it.  Each invocation runs synchronously up to its first  *)
(* `await x.close()` and continues in microtasks after leave() returned;   *)
(* none of them has filtered a collection before the others have walked    *)
(* it, so each of the n invocations calls close() on every owned entry.    *)
(* Result: the rooms and handles afterwards, the close each invocation     *)
(* makes synchronously (first) and the closes made in microtasks (rest).   *)
(***************************************************************************)
clearUserData(w, userArg, n) ==
    LET uid == userArg.uid
        owned == OwnedFrom(w.rooms, uid, 1)
        keep(entries) == SelectSeq(entries, LAMBDA e : e.uid # uid)
    IN  [rooms |-> [r \in Codes |->
                      [w.rooms[r] EXCEPT !.transports = keep(@),
                                         !.producers = keep(w.rooms[r].producers),
                                         !.consumers = keep(w.rooms[r].consumers)]],
         handles |-> CloseEach(w.handles, IdsOf(owned), n),
         first |-> IF owned = <<>> THEN <<>>
                   ELSE <<EvClose(owned[1].kind, owned[1].id)>>,
         rest |-> RestCloses(owned, 2, n)]

RECURSIVE LeaveLog(_, _, _, _, _)
LeaveLog(w, left, i, first, uid) ==
    IF i > Len(left) THEN <<>>
    ELSE first \o <<EvEmit("userLeft", left[i], 0, Subscribers(w.subs, left[i]), uid)>>
               \o LeaveLog(w, left, i + 1, first, uid)

\* leave variant that stops at the first room it finds the uid in
leave_FirstRoomOnly(w, userArg) ==
    LET uid == userArg.uid
        left == SelectSeq(CodeSeq, LAMBDA r : Registered(w.rooms, r) /\ uid \in w.rooms[r].participants)
        w1 == [w EXCEPT !.rooms = [w.rooms EXCEPT ![left[1]].participants = @ \ {uid}]]
        cleared == clearUserData(w1, userArg, 1)
    IN  IF left = <<>> THEN w
        ELSE [w1 EXCEPT !.rooms = cleared.rooms,
                        !.handles = cleared.handles,
                        !.log = w.log \o LeaveLog(w, <<left[1]>>, 1, cleared.first, uid)
                                      \o cleared.rest]

\* leave(user), without the setTimeout (the action that calls it appends the timer)
leave(w, userArg) ==
    LET uid == userArg.uid
        left == SelectSeq(CodeSeq, LAMBDA r : Registered(w.rooms, r) /\ uid \in w.rooms[r].participants)
        n == Len(left)
        w1 == [w EXCEPT !.rooms =
                  [r \in Codes |-> IF uid \in w.rooms[r].participants
                                   THEN [w.rooms[r] EXCEPT !.participants = @ \ {uid}]
                                   ELSE w.rooms[r]]]
        cleared == clearUserData(w1, userArg, n)
    IN  IF n = 0 THEN w
        ELSE [w1 EXCEPT !.rooms = cleared.rooms,
                        !.handles = cleared.handles,
                        !.log = w.log \o LeaveLog(w, left, 1, cleared.first, uid) \o cleared.rest]

\* cleanNoHostRooms loop body that broadcasts before it closes
cleanNoHostRoom_EmitFirst(w, roomId) ==
    LET room == w.rooms[roomId]
        w1 == [w EXCEPT !.log =
                 w.log \o <<EvEmit("sessionClosed", roomId, 0, Subscribers(w.subs, roomId), "-")>>]
        w2 == closeRoom(w1, roomId)
    IN  [w2 EXCEPT !.log = w2.log \o <<EvInfo("closedByHost", roomId, room.worker, room.creatorUid)>>]

\* cleanNoHostRooms loop body that closes without telling the members
cleanNoHostRoom_NoEmit(w, roomId) ==
    LET room == w.rooms[roomId]
        w1 == closeRoom(w, roomId)
    IN  [w1 EXCEPT !.log = w1.log \o <<EvInfo("closedByHost", roomId, room.worker, room.creatorUid)>>]

\* the body of cleanNoHostRooms' loop for a room whose creator is not a participant
cleanNoHostRoom(w, roomId) ==
    LET room == w.rooms[roomId]
        w1 == closeRoom(w, roomId)
    IN  [w1 EXCEPT !.log =
            w1.log \o <<EvInfo("closedByHost", roomId, room.worker, room.creatorUid),
                        EvEmit("sessionClosed", roomId, 0, Subscribers(w.subs, roomId), "-")>>]

RECURSIVE NoHostFrom(_, _)
NoHostFrom(w, i) ==
    IF i > Len(CodeSeq) THEN w
    ELSE LET roomId == CodeSeq[i]
             room == w.rooms[roomId]
         IN  IF room.worker # 0 /\ room.creatorUid \notin room.participants
             THEN NoHostFrom(cleanNoHostRoom(w, roomId), i + 1)
             ELSE NoHostFrom(w, i + 1)

cleanNoHostRooms(w) == NoHostFrom(w, 1)

\* the body of cleanEmptyRooms' loop for a room without participants
cleanEmptyRoom(w, roomId) ==
    LET room == w.rooms[roomId]
        w1 == closeRoom(w, roomId)
    IN  [w1 EXCEPT !.log = w1.log \o <<EvInfo("closedEmpty", roomId, room.worker, room.creatorUid)>>]

RECURSIVE EmptyFrom(_, _)
EmptyFrom(w, i) ==
    IF i > Len(CodeSeq) THEN w
    ELSE LET roomId == CodeSeq[i]
             room == w.rooms[roomId]
         IN  IF room.worker # 0 /\ room.participants = {}
             THEN EmptyFrom(cleanEmptyRoom(w, roomId), i + 1)
             ELSE EmptyFrom(w, i + 1)

cleanEmptyRooms(w) == EmptyFrom(w, 1)

\* the timer callback of leave(): both passes, in this order
sweep(w) == cleanEmptyRooms(cleanNoHostRooms(w))

(***************************************************************************)
(* The same timer callback when close() of handle h throws.  closeRoom     *)
(* calls close() on the transports in order and then on the worker, inside *)
(* no try: the throw ends closeRoom before `delete`, rejects the await in  *)
(* the pass that called it and the await in the timer callback, so nothing *)
(* after the throwing call runs.                                           *)
(***************************************************************************)
\* closeRoom closes handle h
ThrowsIn(room, h) ==
    h = room.worker \/ \E i \in 1..Len(room.transports) : room.transports[i].id = h

\* closeRoom(roomId) up to and including the close() of h that throws
closeRoomThrowing(w, roomId, h) ==
    LET room == w.rooms[roomId]
        tids == IdsOf(room.transports)
        upTo == IF h = room.worker THEN Len(tids)
                ELSE CHOOSE k \in 1..Len(tids) : tids[k] = h
        called == SubSeq(tids, 1, upTo)
    IN  [w EXCEPT
            !.handles = CloseEach(CloseEach(w.handles, called, 1),
                                  IF h = room.worker THEN <<h>> ELSE <<>>, 1),
            !.log = w.log \o ClosesOf("transport", called)
                          \o (IF h = room.worker THEN <<EvClose("worker", h)>> ELSE <<>>)
                          \o <<EvThrow(h)>>]

\* cleanNoHostRooms from the i-th code on: the world when the pass ended or threw
RECURSIVE NoHostThrowing(_, _, _)
NoHostThrowing(w, i, h) ==
    IF i > Len(CodeSeq) THEN [w |-> w, thrown |-> FALSE]
    ELSE LET roomId == CodeSeq[i]
             room == w.rooms[roomId]
         IN  IF room.worker # 0 /\ room.creatorUid \notin room.participants
             THEN IF ThrowsIn(room, h)
                  THEN [w |-> closeRoomThrowing(w, roomId, h), thrown |-> TRUE]
                  ELSE NoHostThrowing(cleanNoHostRoom(w, roomId), i + 1, h)
             ELSE NoHostThrowing(w, i + 1, h)

\* cleanEmptyRooms from the i-th code on
RECURSIVE EmptyThrowing(_, _, _)
EmptyThrowing(w, i, h) ==
    IF i > Len(CodeSeq) THEN [w |-> w, thrown |-> FALSE]
    ELSE LET roomId == CodeSeq[i]
             room == w.rooms[roomId]
         IN  IF room.worker # 0 /\ room.participants = {}
             THEN IF ThrowsIn(room, h)
                  THEN [w |-> closeRoomThrowing(w, roomId, h), thrown |-> TRUE]
                  ELSE EmptyThrowing(cleanEmptyRoom(w, roomId), i + 1, h)
             ELSE EmptyThrowing(w, i + 1, h)

sweepThrowing(w, h) ==
    LET first == NoHostThrowing(w, 1, h)
    IN  IF first.thrown THEN first ELSE EmptyThrowing(first.w, 1, h)

\* createWebRtcTransport(user, roomId, direction) after its engine call resolved with
\* transport id: `room` is the object looked up before the await (the room that
\* worker belongs to); pushing to it is visible only while it is still registered
createWebRtcTransport(w, uid, roomId, worker, direction, id) ==
    IF w.rooms[roomId].worker = worker
    THEN [w EXCEPT !.rooms = [w.rooms EXCEPT ![roomId].transports =
                                  Append(@, [uid |-> uid, id |-> id, direction |-> direction])]]
    ELSE w

\* room.transports.find((t) => t.uid === uid && t.transport.id === transportId)
FindTransport(room, uid, transportId) ==
    \E i \in 1..Len(room.transports) :
        room.transports[i].uid = uid /\ room.transports[i].id = transportId

\* produce(...) after `await transport.transport.produce()` resolved with producer id
produce(w, uid, roomId, worker, kind, id) ==
    IF w.rooms[roomId].worker = worker
    THEN [w EXCEPT !.rooms = [w.rooms EXCEPT ![roomId].producers =
                                  Append(@, [uid |-> uid, id |-> id, kind |-> kind])]]
    ELSE w

\* room.transports.find((t) => t.uid === uid && t.direction === "recv"): the id of
\* the first such transport, 0 when there is none
FindRecvTransport(room, uid) ==
    LET own == SelectSeq(room.transports, LAMBDA t : t.uid = uid /\ t.direction = "recv")
    IN  IF own = <<>> THEN 0 ELSE own[1].id

\* room.producers.find((p) => p.id === producerId): its kind, "-" when there is none
FindProducer(room, producerId) ==
    LET found == SelectSeq(room.producers, LAMBDA e : e.id = producerId)
    IN  IF found = <<>> THEN "-" ELSE found[1].kind

\* consume(...) after `await transport.transport.consume()` resolved with consumer id
consume(w, uid, roomId, worker, producerId, kind, id) ==
    IF w.rooms[roomId].worker = worker
    THEN [w EXCEPT !.rooms = [w.rooms EXCEPT ![roomId].consumers =
                                  Append(@, [uid |-> uid, id |-> id,
                                             producerId |-> producerId, kind |-> kind])]]
    ELSE w

\* getExistingProducer(roomId) for a registered room: the first producer, 0 for null
getExistingProducer(rs, roomId) ==
    IF rs[roomId].producers = <<>> THEN 0 ELSE rs[roomId].producers[1].id

(***************************************************************************)
(* State machine.                                                          *)
(***************************************************************************)
World == [rooms |-> rooms, handles |-> handles, subs |-> subs, log |-> <<>>]

\* the log of a step of handler op: its run header and effects when op is observed
Obs(op, header, effects) == IF op \in watch THEN <<header>> \o effects ELSE <<>>

Handlers ==
    {"authenticate", "disconnect", "sweep", "createRoom", "joinRoom", "leaveRoom",
     "chat", "createTransport", "produce", "connectTransport", "consume"}

NoPending ==
    [op |-> "-", stage |-> "-", conn |-> NoConn, uid |-> "-", code |-> 0,
     worker |-> 0, id |-> 0, dir |-> "-", cleared |-> FALSE, by |-> "-",
     producerId |-> 0]

InitWatching(observed) ==
    /\ rooms = [r \in Codes |-> NoRoom]
    /\ handles = <<>>
    /\ user = [c \in Conns |-> NoUser]
    /\ subs = [c \in Conns |-> {}]
    /\ timers = <<>>
    /\ pending = {}
    /\ watch = observed
    /\ log = <<>>

Init == InitWatching(Handlers)

\* socket.on("authenticate"): jwt.verify, the users query, socket.user = results[0]
Authenticate(c, token) ==
    /\ IF token \in Uids
       THEN /\ user' = [user EXCEPT ![c] = token]
            /\ log' = Obs("authenticate", EvRun("authenticate", c, token, 0),
                          <<EvCallback(c, "true", 0)>>)
       ELSE /\ user' = user
            /\ log' = Obs("authenticate", EvRun("authenticate", c, token, 0), <<>>)
    /\ UNCHANGED <<rooms, handles, subs, timers, pending, watch>>

\* the rooms leave(user) finds the uid in
LeftRooms(rs, userArg) ==
    SelectSeq(CodeSeq, LAMBDA r : Registered(rs, r) /\ userArg.uid \in rs[r].participants)

\* socket.on("disconnect"); the slot then holds a fresh socket
Disconnect(c) ==
    LET gone == [subs EXCEPT ![c] = {}]   \* socket.io has left every group before the event fires
        arg == SocketUserUid(c)
        w == leave([World EXCEPT !.subs = gone], arg)
        ran == user[c] # NoUser /\ LeftRooms(rooms, arg) # <<>>   \* clearUserData was started
    IN  /\ IF user[c] # NoUser
           THEN /\ Len(timers) < MaxTimers
                /\ rooms' = w.rooms
                /\ handles' = w.handles
                /\ log' = Obs("disconnect", EvRun("disconnect", c, user[c], 0), w.log)
                /\ timers' = Append(timers, user[c])
           ELSE /\ log' = Obs("disconnect", EvRun("disconnect", c, user[c], 0), <<>>)
                /\ UNCHANGED <<rooms, handles, timers>>
        /\ subs' = gone
        /\ user' = [user EXCEPT ![c] = NoUser]
        /\ pending' = {[p EXCEPT !.conn = IF p.conn = c THEN NoConn ELSE p.conn,
                                 !.cleared = p.cleared \/
                                     (ran /\ p.uid = arg.uid /\ p.op \in {"createTransport", "produce", "consume"})]
                       : p \in pending}
        /\ watch' = watch

\* the setTimeout callback of leave()
SweepFire ==
    /\ timers # <<>>
    /\ LET w == sweep(World)
       IN  /\ rooms' = w.rooms
           /\ handles' = w.handles
           /\ log' = Obs("sweep", EvRun("sweep", NoConn, Head(timers), 0), w.log)
    /\ timers' = Tail(timers)
    /\ UNCHANGED <<user, subs, pending, watch>>

\* `if (!socket.user) { console.error("User not authenticated"); return; }`, the
\* first statement of every handler but authenticate and disconnect
Declined(op, header) ==
    /\ log' = Obs(op, header, <<EvError("User not authenticated")>>)
    /\ UNCHANGED <<rooms, handles, user, subs, timers, pending, watch>>

\* the setTimeout callback of leave() when the close() it calls on handle h throws
SweepFireThrows(h) ==
    /\ timers # <<>>
    /\ handles[h].closes < MaxThrows
    /\ LET r == sweepThrowing(World, h)
       IN  /\ r.thrown
           /\ rooms' = r.w.rooms
           /\ handles' = r.w.handles
           /\ log' = Obs("sweep", EvRun("sweep", NoConn, Head(timers), 0),
                         r.w.log \o <<EvUnhandled("sweep")>>)
    /\ timers' = Tail(timers)
    /\ UNCHANGED <<user, subs, pending, watch>>

\* the bounds leave room for one more createRoom call of connection c
MayCreate(c) ==
    /\ Cardinality({q \in pending : q.op = "createRoom"}) < MaxCreating
    /\ Cardinality({q \in pending : q.op # "createRoom" \/ q.by = user[c]}) < MaxPending

\* createRoom variant without the `if (this.rooms[roomId])` check
CreateRoom_NoCheck(c, roomId) ==
    IF user[c] = NoUser
    THEN Declined("createRoom", EvRun("createRoom", c, NoUser, roomId))
    ELSE /\ MayCreate(c)
         /\ log' = Obs("createRoom", EvRun("createRoom", c, user[c], roomId), <<>>)
         /\ pending' = pending \cup
              {[NoPending EXCEPT !.op = "createRoom", !.stage = "worker", !.conn = c,
                                 !.uid = user[c], !.code = roomId, !.by = user[c]]}
         /\ UNCHANGED <<rooms, handles, user, subs, timers, watch>>

\* socket.on("createRoom") up to `await mediasoup.createWorker()`, or to the
\* callback when the code is already registered
CreateRoom(c, roomId) ==
    IF user[c] = NoUser
    THEN Declined("createRoom", EvRun("createRoom", c, NoUser, roomId))
    ELSE /\ IF Registered(rooms, roomId)
            THEN /\ log' = Obs("createRoom", EvRun("createRoom", c, user[c], roomId),
                               <<EvCallback(c, "roomId", roomId)>>)
                 /\ pending' = pending
            ELSE /\ MayCreate(c)
                 /\ log' = Obs("createRoom", EvRun("createRoom", c, user[c], roomId), <<>>)
                 /\ pending' = pending \cup
                      {[NoPending EXCEPT !.op = "createRoom", !.stage = "worker", !.conn = c,
                                         !.uid = user[c], !.code = roomId, !.by = user[c]]}
         /\ UNCHANGED <<rooms, handles, user, subs, timers, watch>>

\* createWorker settles; createRoom goes on to `await worker.createRouter()`
CreateRoomWorker(p, ok) ==
    /\ p \in pending /\ p.op = "createRoom" /\ p.stage = "worker"
    /\ IF ok
       THEN /\ CountKind(handles, "worker") < MaxRooms
            /\ handles' = Append(handles, NewHandle("worker", p.uid))
            /\ pending' = (pending \ {p}) \cup
                 {[p EXCEPT !.stage = "router", !.worker = Len(handles) + 1]}
            /\ log' = Obs("createRoom", EvRun("createRoom.worker", p.conn, p.uid, p.code), <<>>)
       ELSE /\ handles' = handles
            /\ pending' = pending \ {p}
            /\ log' = Obs("createRoom", EvRun("createRoom.worker", p.conn, p.uid, p.code),
                          <<EvUnhandled("createRoom")>>)
    /\ UNCHANGED <<rooms, user, subs, timers, watch>>

\* createRouter settles; the room is stored under its code and the handler answers
CreateRoomRouter(p, ok) ==
    /\ p \in pending /\ p.op = "createRoom" /\ p.stage = "router"
    /\ IF ok
       THEN /\ rooms' = [rooms EXCEPT ![p.code] = NewRoom(p.uid, p.worker)]
            /\ log' = Obs("createRoom", EvRun("createRoom.router", p.conn, p.uid, p.code),
                          <<EvCallback(p.conn, "roomId", p.code)>>)
       ELSE /\ rooms' = rooms
            /\ log' = Obs("createRoom", EvRun("createRoom.router", p.conn, p.uid, p.code),
                          <<EvUnhandled("createRoom")>>)
    /\ pending' = pending \ {p}
    /\ UNCHANGED <<handles, user, subs, timers, watch>>

\* joinRoom variant that subscribes the socket before it looks the room up
JoinRoom_SubscribeFirst(c, roomId) ==
    LET joined == [subs EXCEPT ![c] = @ \cup {roomId}]
    IN  IF user[c] = NoUser
        THEN Declined("joinRoom", EvRun("joinRoom", c, NoUser, roomId))
        ELSE /\ subs' = joined
             /\ IF Registered(rooms, roomId)
                THEN LET w == join([World EXCEPT !.subs = joined], roomId, SocketUserUid(c))
                     IN  /\ rooms' = w.rooms
                         /\ log' = Obs("joinRoom", EvRun("joinRoom", c, user[c], roomId),
                                       w.log \o <<EvCallback(c, "true", 0),
                                                  EvEmit("router-rtp-capabilities", 0, 0, {c}, "-")>>)
                ELSE /\ log' = Obs("joinRoom", EvRun("joinRoom", c, user[c], roomId),
                                   <<EvCallback(c, "false", 0)>>)
                     /\ rooms' = rooms
             /\ UNCHANGED <<handles, user, timers, pending, watch>>

\* socket.on("joinRoom")
JoinRoom(c, roomId) ==
    IF user[c] = NoUser
    THEN Declined("joinRoom", EvRun("joinRoom", c, NoUser, roomId))
    ELSE /\ IF Registered(rooms, roomId)
            THEN LET joined == [subs EXCEPT ![c] = @ \cup {roomId}]
                     w == join([World EXCEPT !.subs = joined], roomId, SocketUserUid(c))
                 IN  /\ subs' = joined
                     /\ rooms' = w.rooms
                     /\ log' = Obs("joinRoom", EvRun("joinRoom", c, user[c], roomId),
                                   w.log \o <<EvCallback(c, "true", 0),
                                              EvEmit("router-rtp-capabilities", 0, 0, {c}, "-")>>)
            ELSE /\ log' = Obs("joinRoom", EvRun("joinRoom", c, user[c], roomId),
                               <<EvCallback(c, "false", 0)>>)
                 /\ UNCHANGED <<rooms, subs>>
         /\ UNCHANGED <<handles, user, timers, pending, watch>>

\* socket.on("leaveRoom")
LeaveRoom(c, roomId) ==
    IF user[c] = NoUser
    THEN Declined("leaveRoom", EvRun("leaveRoom", c, NoUser, roomId))
    ELSE /\ subs' = [subs EXCEPT ![c] = @ \ {roomId}]
         /\ log' = Obs("leaveRoom", EvRun("leaveRoom", c, user[c], roomId), <<>>)
         /\ UNCHANGED <<rooms, handles, user, timers, pending, watch>>

\* socket.on("chat")
Chat(c, roomId) ==
    IF user[c] = NoUser
    THEN Declined("chat", EvRun("chat", c, NoUser, roomId))
    ELSE /\ log' = Obs("chat", EvRun("chat", c, user[c], roomId),
                       <<EvEmit("chat", roomId, 0, Subscribers(subs, roomId), user[c])>>)
         /\ UNCHANGED <<rooms, handles, user, subs, timers, pending, watch>>

\* create-transport variant without the `if (!socket.user)` check: reading
\* socket.user.uid throws inside the try and the catch answers the error
CreateTransport_NoAuthCheck(c, roomId, direction) ==
    IF user[c] = NoUser
    THEN /\ log' = Obs("createTransport", EvRun("createTransport", c, NoUser, roomId),
                       <<EvCallback(c, "error", 0)>>)
         /\ UNCHANGED <<rooms, handles, user, subs, timers, pending, watch>>
    ELSE /\ IF Registered(rooms, roomId)
            THEN /\ Cardinality(pending) < MaxPending
                 /\ log' = Obs("createTransport", EvRun("createTransport", c, user[c], roomId), <<>>)
                 /\ pending' = pending \cup
                      {[NoPending EXCEPT !.op = "createTransport", !.conn = c,
                                         !.uid = SocketUserUid(c).uid, !.code = roomId,
                                         !.worker = rooms[roomId].worker, !.dir = direction,
                                         !.by = user[c]]}
            ELSE /\ log' = Obs("createTransport", EvRun("createTransport", c, user[c], roomId),
                               <<EvCallback(c, "error", 0)>>)
                 /\ pending' = pending
         /\ UNCHANGED <<rooms, handles, user, subs, timers, watch>>

\* socket.on("create-transport") up to the await inside createWebRtcTransport
\* (getPublicIpv4, then router.createWebRtcTransport), or to the error answer
CreateTransport(c, roomId, direction) ==
    IF user[c] = NoUser
    THEN Declined("createTransport", EvRun("createTransport", c, NoUser, roomId))
    ELSE /\ IF Registered(rooms, roomId)
            THEN /\ Cardinality(pending) < MaxPending
                 /\ log' = Obs("createTransport", EvRun("createTransport", c, user[c], roomId), <<>>)
                 /\ pending' = pending \cup
                      {[NoPending EXCEPT !.op = "createTransport", !.conn = c,
                                         !.uid = SocketUserUid(c).uid, !.code = roomId,
                                         !.worker = rooms[roomId].worker, !.dir = direction,
                                         !.by = user[c]]}
            ELSE /\ log' = Obs("createTransport", EvRun("createTransport", c, user[c], roomId),
                               <<EvCallback(c, "error", 0)>>)
                 /\ pending' = pending
         /\ UNCHANGED <<rooms, handles, user, subs, timers, watch>>

\* the engine (or the address lookup) settles: the transport is recorded, the
\* handler answers and, for recv, goes on to announce the room's producer
CreateTransportDone(p, ok) ==
    /\ p \in pending /\ p.op = "createTransport"
    /\ IF ok
       THEN LET id == Len(handles) + 1
                w == createWebRtcTransport(World, p.uid, p.code, p.worker, p.dir, id)
                \* getExistingProducer calls getRoom, which throws when the room is
                \* gone: the catch then answers a second time
                announce ==
                    IF p.dir # "recv" THEN <<>>
                    ELSE IF ~Registered(w.rooms, p.code) THEN <<EvCallback(p.conn, "error", 0)>>
                    ELSE IF getExistingProducer(w.rooms, p.code) = 0 THEN <<>>
                    ELSE <<EvEmit("new-producer", 0, getExistingProducer(w.rooms, p.code),
                                  {p.conn} \ {NoConn}, "-")>>
            IN  /\ CountKind(handles, "transport") < MaxTransports
                /\ handles' = Append(handles, NewHandle("transport", p.by))
                /\ rooms' = w.rooms
                /\ log' = Obs("createTransport",
                              EvRun("createTransport.done", p.conn, p.uid, p.code),
                              <<EvCallback(p.conn, "params", id)>> \o announce)
       ELSE /\ log' = Obs("createTransport",
                          EvRun("createTransport.done", p.conn, p.uid, p.code),
                          <<EvCallback(p.conn, "error", 0)>>)
            /\ UNCHANGED <<rooms, handles>>
    /\ pending' = pending \ {p}
    /\ UNCHANGED <<user, subs, timers, watch>>

\* socket.on("produce") up to `await transport.transport.produce()`, or to the error answer
Produce(c, roomId, transportId, kind) ==
    IF user[c] = NoUser
    THEN Declined("produce", EvRun("produce", c, NoUser, roomId))
    ELSE /\ IF Registered(rooms, roomId)
                 /\ FindTransport(rooms[roomId], SocketUserUid(c).uid, transportId)
            THEN /\ Cardinality(pending) < MaxPending
                 /\ log' = Obs("produce", EvRun("produce", c, user[c], roomId), <<>>)
                 /\ pending' = pending \cup
                      {[NoPending EXCEPT !.op = "produce", !.conn = c,
                                         !.uid = SocketUserUid(c).uid, !.code = roomId,
                                         !.worker = rooms[roomId].worker, !.id = transportId,
                                         !.dir = kind, !.by = user[c]]}
            ELSE /\ log' = Obs("produce", EvRun("produce", c, user[c], roomId),
                               <<EvCallback(c, "error", 0)>>)
                 /\ pending' = pending
         /\ UNCHANGED <<rooms, handles, user, subs, timers, watch>>

\* produce continuation that tells the whole group (io.to instead of socket.to)
ProduceDone_TellAll(p, ok) ==
    /\ p \in pending /\ p.op = "produce"
    /\ IF ok
       THEN LET id == Len(handles) + 1
                w == produce(World, p.uid, p.code, p.worker, p.dir, id)
            IN  /\ CountKind(handles, "producer") < MaxProducers
                /\ handles' = Append(handles, NewHandle("producer", p.by))
                /\ rooms' = w.rooms
                /\ log' = Obs("produce", EvRun("produce.done", p.conn, p.uid, p.code),
                              <<EvCallback(p.conn, "id", id),
                                EvEmit("new-producer", p.code, id, Subscribers(subs, p.code), "-")>>)
       ELSE /\ log' = Obs("produce", EvRun("produce.done", p.conn, p.uid, p.code),
                          <<EvCallback(p.conn, "error", 0)>>)
            /\ UNCHANGED <<rooms, handles>>
    /\ pending' = pending \ {p}
    /\ UNCHANGED <<user, subs, timers, watch>>

\* the engine settles the produce request: the producer is recorded, the handler
\* answers and tells the other sockets of the group
ProduceDone(p, ok) ==
    /\ p \in pending /\ p.op = "produce"
    /\ IF ok
       THEN LET id == Len(handles) + 1
                w == produce(World, p.uid, p.code, p.worker, p.dir, id)
            IN  /\ CountKind(handles, "producer") < MaxProducers
                /\ handles' = Append(handles, NewHandle("producer", p.by))
                /\ rooms' = w.rooms
                /\ log' = Obs("produce", EvRun("produce.done", p.conn, p.uid, p.code),
                              <<EvCallback(p.conn, "id", id),
                                EvEmit("new-producer", p.code, id,
                                       Subscribers(subs, p.code) \ {p.conn}, "-")>>)
       ELSE /\ log' = Obs("produce", EvRun("produce.done", p.conn, p.uid, p.code),
                          <<EvCallback(p.conn, "error", 0)>>)
            /\ UNCHANGED <<rooms, handles>>
    /\ pending' = pending \ {p}
    /\ UNCHANGED <<user, subs, timers, watch>>

\* socket.on("connect-transport") up to `await transport.transport.connect()`, or
\* to the error answer
ConnectTransport(c, roomId, transportId) ==
    IF user[c] = NoUser
    THEN Declined("connectTransport", Ev("run", "connectTransport", roomId, transportId, {c}, NoUser))
    ELSE /\ IF Registered(rooms, roomId)
                 /\ FindTransport(rooms[roomId], SocketUserUid(c).uid, transportId)
            THEN /\ Cardinality(pending) < MaxPending
                 /\ log' = Obs("connectTransport",
                               Ev("run", "connectTransport", roomId, transportId, {c}, user[c]),
                               <<EvEngine("connect", transportId, "-")>>)
                 /\ pending' = pending \cup
                      {[NoPending EXCEPT !.op = "connect", !.conn = c,
                                         !.uid = SocketUserUid(c).uid, !.code = roomId,
                                         !.worker = rooms[roomId].worker, !.id = transportId,
                                         !.by = user[c]]}
            ELSE /\ log' = Obs("connectTransport",
                               Ev("run", "connectTransport", roomId, transportId, {c}, user[c]),
                               <<EvCallback(c, "error", 0)>>)
                 /\ pending' = pending
         /\ UNCHANGED <<rooms, handles, user, subs, timers, watch>>

\* the engine settles the connect request and the handler answers
ConnectTransportDone(p, ok) ==
    /\ p \in pending /\ p.op = "connect"
    /\ log' = Obs("connectTransport",
                  Ev("run", "connectTransport.done", p.code, p.id, {p.conn} \ {NoConn}, p.by),
                  <<EvCallback(p.conn, IF ok THEN "ok" ELSE "error", 0)>>)
    /\ pending' = pending \ {p}
    /\ UNCHANGED <<rooms, handles, user, subs, timers, watch>>

\* socket.on("consume") up to `await transport.transport.consume()`, or to the error
\* answer; can is what room.router.canConsume() returns when it is asked
Consume(c, roomId, producerId, can) ==
    LET uid == SocketUserUid(c).uid
        room == rooms[roomId]
        header == Ev("run", "consume", roomId, producerId, {c}, user[c])
        asked == <<EvEngine("canConsume", producerId, IF can THEN "true" ELSE "false")>>
        fail(effects, message) ==
            /\ log' = Obs("consume", header, effects \o <<EvCallback(c, message, 0)>>)
            /\ pending' = pending
    IN  IF user[c] = NoUser
        THEN Declined("consume", Ev("run", "consume", roomId, producerId, {c}, NoUser))
        ELSE /\ IF ~Registered(rooms, roomId) THEN fail(<<>>, "Room not found")
                ELSE IF FindRecvTransport(room, uid) = 0 THEN fail(<<>>, "Consumer transport not found")
                ELSE IF FindProducer(room, producerId) = "-" THEN fail(<<>>, "Producer not found")
                ELSE IF ~can THEN fail(asked, "Cannot consume")
                ELSE /\ Cardinality(pending) < MaxPending
                     /\ log' = Obs("consume", header,
                                   asked \o <<EvEngine("consume", FindRecvTransport(room, uid), "-")>>)
                     /\ pending' = pending \cup
                          {[NoPending EXCEPT !.op = "consume", !.stage = "consume", !.conn = c,
                                             !.uid = uid, !.code = roomId, !.worker = room.worker,
                                             !.id = FindRecvTransport(room, uid),
                                             !.dir = FindProducer(room, producerId),
                                             !.by = user[c], !.producerId = producerId]}
             /\ UNCHANGED <<rooms, handles, user, subs, timers, watch>>

\* the engine settles transport.consume(): the consumer is recorded and consume goes
\* on to `await consumer.resume()`; a rejection is answered with the error
ConsumeDone(p, ok) ==
    /\ p \in pending /\ p.op = "consume" /\ p.stage = "consume"
    /\ IF ok
       THEN LET id == Len(handles) + 1
                w == consume(World, p.uid, p.code, p.worker, p.producerId, p.dir, id)
            IN  /\ CountKind(handles, "consumer") < MaxConsumers
                /\ handles' = Append(handles, NewHandle("consumer", p.by))
                /\ rooms' = w.rooms
                /\ pending' = (pending \ {p}) \cup {[p EXCEPT !.stage = "resume", !.id = id]}
                /\ log' = Obs("consume",
                              Ev("run", "consume.done", p.code, p.producerId,
                                 {p.conn} \ {NoConn}, p.by),
                              <<EvEngine("resume", id, "-")>>)
       ELSE /\ log' = Obs("consume",
                          Ev("run", "consume.done", p.code, p.producerId,
                             {p.conn} \ {NoConn}, p.by),
                          <<EvCallback(p.conn, "error", 0)>>)
            /\ pending' = pending \ {p}
            /\ UNCHANGED <<rooms, handles>>
    /\ UNCHANGED <<user, subs, timers, watch>>

\* consumer.resume() settles and the handler answers
ConsumeResumed(p, ok) ==
    /\ p \in pending /\ p.op = "consume" /\ p.stage = "resume"
    /\ log' = Obs("consume",
                  Ev("run", "consume.resumed", p.code, p.producerId, {p.conn} \ {NoConn}, p.by),
                  <<EvCallback(p.conn, IF ok THEN "consumer" ELSE "error", IF ok THEN p.id ELSE 0)>>)
    /\ pending' = pending \ {p}
    /\ UNCHANGED <<rooms, handles, user, subs, timers, watch>>

Membership ==
    \/ \E c \in Conns, token \in Tokens : Authenticate(c, token)
    \/ \E c \in Conns : Disconnect(c)
    \/ SweepFire
    \/ \E h \in 1..Len(handles) : SweepFireThrows(h)
    \/ \E c \in Conns, roomId \in Codes : CreateRoom(c, roomId)
    \/ \E p \in pending, ok \in BOOLEAN : CreateRoomWorker(p, ok)
    \/ \E p \in pending, ok \in BOOLEAN : CreateRoomRouter(p, ok)
    \/ \E c \in Conns, roomId \in Codes : JoinRoom(c, roomId)
    \/ \E c \in Conns, roomId \in Codes : LeaveRoom(c, roomId)
    \/ \E c \in Conns, roomId \in Codes : Chat(c, roomId)

Media ==
    \/ \E c \in Conns, roomId \in Codes, direction \in Directions :
            CreateTransport(c, roomId, direction)
    \/ \E p \in pending, ok \in BOOLEAN : CreateTransportDone(p, ok)
    \/ \E c \in Conns, roomId \in Codes, transportId \in 0..Len(handles), kind \in Kinds :
            Produce(c, roomId, transportId, kind)
    \/ \E p \in pending, ok \in BOOLEAN : ProduceDone(p, ok)
    \/ \E c \in Conns, roomId \in Codes, transportId \in 0..Len(handles) :
            ConnectTransport(c, roomId, transportId)
    \/ \E p \in pending, ok \in BOOLEAN : ConnectTransportDone(p, ok)
    \/ \E c \in Conns, roomId \in Codes, producerId \in 0..Len(handles), can \in BOOLEAN :
            Consume(c, roomId, producerId, can)
    \/ \E p \in pending, ok \in BOOLEAN : ConsumeDone(p, ok)
    \/ \E p \in pending, ok \in BOOLEAN : ConsumeResumed(p, ok)

Next == Membership \/ Media

Spec == Init /\ [][Next]_vars

(***************************************************************************)
(* Scenarios: the same actions with the inputs narrowed, so that the       *)
(* reachable states can be enumerated.  Connection c1 is the host (it      *)
(* authenticates as u1 and creates the rooms), c2 a guest (u2).            *)
(***************************************************************************)
Roles == {<<"c1", "u1">>, <<"c2", "u2">>}
Host == "c1"
Guest == "c2"

HostAndGuest ==
    \/ \E r \in Roles : Authenticate(r[1], r[2])
    \/ \E c \in Conns : Disconnect(c)
    \/ SweepFire
    \/ \E roomId \in Codes : CreateRoom(Host, roomId)
    \/ \E p \in pending, ok \in BOOLEAN : CreateRoomWorker(p, ok)
    \/ \E p \in pending, ok \in BOOLEAN : CreateRoomRouter(p, ok)
    \/ \E c \in Conns, roomId \in Codes : JoinRoom(c, roomId)
    \/ \E roomId \in Codes : LeaveRoom(Guest, roomId)

GuestTransports ==
    \/ \E roomId \in Codes : CreateTransport(Guest, roomId, "send")
    \/ \E p \in pending, ok \in BOOLEAN : CreateTransportDone(p, ok)

HostMedia ==
    \/ \E roomId \in Codes, direction \in Directions : CreateTransport(Host, roomId, direction)
    \/ \E p \in pending, ok \in BOOLEAN : CreateTransportDone(p, ok)
    \/ \E roomId \in Codes, transportId \in 0..Len(handles) :
            Produce(Host, roomId, transportId, "video")
    \/ \E p \in pending, ok \in BOOLEAN : ProduceDone(p, ok)

HostOnly ==
    \/ Authenticate(Host, "u1")
    \/ Disconnect(Host)
    \/ SweepFire
    \/ \E roomId \in Codes : CreateRoom(Host, roomId)
    \/ \E p \in pending : CreateRoomWorker(p, TRUE)
    \/ \E p \in pending : CreateRoomRouter(p, TRUE)
    \/ \E roomId \in Codes : JoinRoom(Host, roomId)

\* rooms, members, guest transports and sweeps; the sweeps are observed
SweepSpec == InitWatching({"sweep"}) /\ [][HostAndGuest \/ GuestTransports]_vars

\* a timer that is due fires: the event loop runs every setTimeout callback
FairSweepSpec ==
    InitWatching({"sweep"}) /\ [][HostAndGuest]_vars /\ WF_vars(SweepFire)

\* rooms and members; disconnects are observed
MemberSpec == InitWatching({"disconnect"}) /\ [][HostAndGuest]_vars

GuestCreates == \E roomId \in Codes : CreateRoom(Guest, roomId)

\* rooms created by either connection, with engine failures; createRoom is observed
CreateSpec == InitWatching({"createRoom"}) /\ [][HostAndGuest \/ GuestCreates]_vars

\* the host publishes, the guest receives; no one leaves
Publishing ==
    \/ \E r \in Roles : Authenticate(r[1], r[2])
    \/ \E roomId \in Codes : CreateRoom(Host, roomId)
    \/ \E p \in pending : CreateRoomWorker(p, TRUE)
    \/ \E p \in pending : CreateRoomRouter(p, TRUE)
    \/ \E c \in Conns, roomId \in Codes : JoinRoom(c, roomId)
    \/ \E roomId \in Codes : CreateTransport(Host, roomId, "send")
    \/ \E roomId \in Codes : CreateTransport(Guest, roomId, "recv")
    \/ \E p \in pending, ok \in BOOLEAN : CreateTransportDone(p, ok)
    \/ \E roomId \in Codes, transportId \in 0..Len(handles) :
            Produce(Host, roomId, transportId, "video")
    \/ \E p \in pending, ok \in BOOLEAN : ProduceDone(p, ok)

\* the host opens rooms and transports, nobody joins; the engine does as asked
OpeningTransports ==
    \/ \E r \in Roles : Authenticate(r[1], r[2])
    \/ \E roomId \in Codes : CreateRoom(Host, roomId)
    \/ \E p \in pending : CreateRoomWorker(p, TRUE)
    \/ \E p \in pending : CreateRoomRouter(p, TRUE)
    \/ \E roomId \in Codes : CreateTransport(Host, roomId, "send")
    \/ \E roomId \in Codes : CreateTransport(Host, roomId, "recv")
    \/ \E p \in pending : CreateTransportDone(p, TRUE)

HostProduces ==
    \/ \E roomId \in Codes, transportId \in 0..Len(handles) :
            Produce(Host, roomId, transportId, "video")
    \/ \E p \in pending : ProduceDone(p, TRUE)

GuestConnects ==
    \/ \E roomId \in Codes, transportId \in 0..Len(handles) :
            ConnectTransport(Guest, roomId, transportId)
    \/ \E p \in pending, ok \in BOOLEAN : ConnectTransportDone(p, ok)

GuestConsumes ==
    \/ \E roomId \in Codes, producerId \in 0..Len(handles), can \in BOOLEAN :
            Consume(Guest, roomId, producerId, can)
    \/ \E p \in pending, ok \in BOOLEAN : ConsumeDone(p, ok)
    \/ \E p \in pending, ok \in BOOLEAN : ConsumeResumed(p, ok)

\* publishing; produce and create-transport are observed
PublishSpec == InitWatching({"produce", "createTransport"}) /\ [][Publishing]_vars

\* the guest connects transports; connect-transport is observed
ConnectSpec ==
    InitWatching({"connectTransport"}) /\ [][OpeningTransports \/ GuestConnects]_vars

\* the guest consumes what the host produces; consume is observed
ConsumeSpec ==
    InitWatching({"consume"}) /\ [][OpeningTransports \/ HostProduces \/ GuestConsumes]_vars

\* rooms and members; joinRoom is observed
JoinSpec == InitWatching({"joinRoom"}) /\ [][HostAndGuest]_vars

\* a close() called by a sweep throws
EngineThrows == \E h \in 1..Len(handles) : SweepFireThrows(h)

HostTransports ==
    \/ \E roomId \in Codes : CreateTransport(Host, roomId, "send")
    \/ \E p \in pending : CreateTransportDone(p, TRUE)

\* the host's rooms and transports, swept by an engine whose close() may throw
ThrowingSweepSpec ==
    InitWatching({"sweep"}) /\ [][HostOnly \/ HostTransports \/ EngineThrows]_vars

\* either connection authenticates with any token, also a second time
AnyToken == \E c \in Conns, token \in Tokens : Authenticate(c, token)

\* the host's rooms with repeated authentication; authenticate is observed
ReauthSpec == InitWatching({"authenticate"}) /\ [][HostOnly \/ AnyToken]_vars

\* the host creates rooms and nobody ever joins one; both connections come and go
Idle ==
    \/ \E r \in Roles : Authenticate(r[1], r[2])
    \/ \E c \in Conns : Disconnect(c)
    \/ SweepFire
    \/ \E roomId \in Codes : CreateRoom(Host, roomId)
    \/ \E p \in pending : CreateRoomWorker(p, TRUE)
    \/ \E p \in pending : CreateRoomRouter(p, TRUE)

\* rooms without members; the sweeps are observed
IdleSpec == InitWatching({"sweep"}) /\ [][Idle]_vars

\* one user, u1, on both connections
SameUser ==
    \/ \E c \in Conns : Authenticate(c, "u1")
    \/ \E c \in Conns : Disconnect(c)
    \/ SweepFire
    \/ \E roomId \in Codes : CreateRoom(Host, roomId)
    \/ \E p \in pending : CreateRoomWorker(p, TRUE)
    \/ \E p \in pending : CreateRoomRouter(p, TRUE)
    \/ \E c \in Conns, roomId \in Codes : JoinRoom(c, roomId)

\* two sockets of one user; disconnects are observed
TwoSocketsSpec == InitWatching({"disconnect"}) /\ [][SameUser]_vars

\* one room, code 1: the host joins it and publishes, the guest consumes, the host
\* disconnects; the engine does as asked
HostLeavesConsumers ==
    \/ \E r \in Roles : Authenticate(r[1], r[2])
    \/ CreateRoom(Host, 1)
    \/ \E p \in pending : CreateRoomWorker(p, TRUE)
    \/ \E p \in pending : CreateRoomRouter(p, TRUE)
    \/ JoinRoom(Host, 1)
    \/ CreateTransport(Host, 1, "send")
    \/ CreateTransport(Guest, 1, "recv")
    \/ \E p \in pending : CreateTransportDone(p, TRUE)
    \/ \E transportId \in 1..Len(handles) : Produce(Host, 1, transportId, "video")
    \/ \E p \in pending : ProduceDone(p, TRUE)
    \/ \E producerId \in 1..Len(handles) : Consume(Guest, 1, producerId, TRUE)
    \/ \E p \in pending : ConsumeDone(p, TRUE)
    \/ \E p \in pending : ConsumeResumed(p, TRUE)
    \/ Disconnect(Host)
    \/ SweepFire

\* producers and their consumers while the producer's owner leaves; disconnect is
\* observed
LeavingSpec == InitWatching({"disconnect"}) /\ [][HostLeavesConsumers]_vars

\* the guest opens recv transports in the host's rooms; the engine may fail
GuestReceives ==
    \/ \E roomId \in Codes : CreateTransport(Guest, roomId, "recv")
    \/ \E p \in pending, ok \in BOOLEAN : CreateTransportDone(p, ok)

\* recv transports opened while rooms come and go; create-transport is observed
AnnounceSpec == InitWatching({"createTransport"}) /\ [][Idle \/ GuestReceives]_vars

\* the signaling events that require an authenticated socket
Signaling ==
    {"createRoom", "joinRoom", "leaveRoom", "chat", "createTransport", "produce",
     "connectTransport", "consume"}

\* the host publishes in a room while the guest, who never authenticates, sends
\* every signaling event
Uninvited ==
    \/ Authenticate(Host, "u1")
    \/ \E roomId \in Codes : CreateRoom(Host, roomId)
    \/ \E p \in pending : CreateRoomWorker(p, TRUE)
    \/ \E p \in pending : CreateRoomRouter(p, TRUE)
    \/ \E roomId \in Codes : CreateTransport(Host, roomId, "send")
    \/ \E p \in pending : CreateTransportDone(p, TRUE)
    \/ \E roomId \in Codes, transportId \in 1..Len(handles) :
            Produce(Host, roomId, transportId, "video")
    \/ \E p \in pending : ProduceDone(p, TRUE)
    \/ \E roomId \in Codes : CreateRoom(Guest, roomId)
    \/ \E roomId \in Codes : JoinRoom(Guest, roomId)
    \/ \E roomId \in Codes : LeaveRoom(Guest, roomId)
    \/ \E roomId \in Codes : Chat(Guest, roomId)
    \/ \E roomId \in Codes, direction \in Directions : CreateTransport(Guest, roomId, direction)
    \/ \E roomId \in Codes, transportId \in 1..Len(handles) :
            ConnectTransport(Guest, roomId, transportId)
    \/ \E roomId \in Codes, transportId \in 1..Len(handles) :
            Produce(Guest, roomId, transportId, "video")
    \/ \E roomId \in Codes, producerId \in 1..Len(handles) :
            Consume(Guest, roomId, producerId, TRUE)

\* every signaling event is observed
DeclineSpec == InitWatching(Signaling) /\ [][Uninvited]_vars

\* the host's transports and producers; disconnects and sweeps are observed
ResourceSpec == InitWatching({"disconnect", "sweep"}) /\ [][HostOnly \/ HostMedia]_vars

(***************************************************************************)
(* Properties.                                                             *)
(***************************************************************************)
\* this step is a timer callback of leave(): the oldest pending sweep runs
SweepStep == timers # <<>> /\ timers' = Tail(timers)

\* this step is the disconnect of connection c, which had authenticated
AuthDisconnectStep(c) == user[c] # NoUser /\ user'[c] = NoUser

IsSweepLog == log # <<>> /\ log[1].ev = "run" /\ log[1].name = "sweep"
IsDisconnectLog == log # <<>> /\ log[1].ev = "run" /\ log[1].name = "disconnect"

\* positions of the entries of lg about room roomId
Deletes(lg, roomId) ==
    {i \in DOMAIN lg : lg[i].ev = "delete" /\ lg[i].code = roomId}
Emits(lg, name, roomId) ==
    {i \in DOMAIN lg : lg[i].ev = "emit" /\ lg[i].name = name /\ lg[i].code = roomId}
Infos(lg, name) ==
    {i \in DOMAIN lg : lg[i].ev = "info" /\ lg[i].name = name}

\* roomId is registered, the sweep that fires next was scheduled by a leave of its
\* creator, and the creator is not among its participants
HostGone(roomId) ==
    /\ Registered(rooms, roomId)
    /\ timers # <<>>
    /\ rooms[roomId].creatorUid = Head(timers)
    /\ rooms[roomId].creatorUid \notin rooms[roomId].participants

\* C1, safety half: the sweep scheduled by the creator's leave, firing while the
\* creator is not a participant, unregisters the room and emits sessionClosed to
\* every connection subscribed to the room's broadcast group.
C1_SweepClosesAndTells ==
    [][SweepStep =>
         \A roomId \in Codes :
             HostGone(roomId) =>
                 /\ ~Registered(rooms', roomId)
                 /\ \E e \in Emits(log', "sessionClosed", roomId) :
                        log'[e].to = Subscribers(subs, roomId)]_vars

\* C1, liveness half: a room whose creator left and stays away is eventually
\* closed (its code is no longer registered).
C1_EventuallyClosed ==
    \A roomId \in Codes :
        HostGone(roomId)
            ~> (~Registered(rooms, roomId)
                \/ rooms[roomId].creatorUid \in rooms[roomId].participants)

\* C1: if the creator of a room leaves and is still not a participant when the
\* sweep scheduled by that leave fires, the room is eventually closed and every
\* connection still subscribed to its broadcast group receives sessionClosed.
C1_HostGoneRoomClosed == C1_SweepClosesAndTells /\ C1_EventuallyClosed

\* a sweep scheduled by the creator's leave has just closed the creator's room and
\* told a subscribed connection
C1_Witness ==
    /\ IsSweepLog
    /\ \E i \in Infos(log, "closedByHost") :
          /\ log[i].uid = log[1].uid
          /\ \E e \in Emits(log, "sessionClosed", log[i].code) : log[e].to # {}

\* the creator of roomId is connected, has joined roomId (joinRoom answered true and
\* the participant key join() recorded for it is in the room)
CreatorJoined(roomId) ==
    \E c \in Conns :
        /\ user[c] = rooms[roomId].creatorUid
        /\ roomId \in subs[c]
        /\ SocketUserUid(c).uid \in rooms[roomId].participants

\* C2: the sweep decides from the participant sets at the moment it fires: if the
\* creator left and has rejoined before the sweep scheduled by that leave fires,
\* that sweep does not close the room.
C2_RejoinedHostKeepsRoom ==
    [][SweepStep =>
         \A roomId \in Codes :
             (/\ Registered(rooms, roomId)
              /\ rooms[roomId].creatorUid = Head(timers)
              /\ CreatorJoined(roomId))
                 => rooms'[roomId].worker = rooms[roomId].worker]_vars

\* C6: closing a room is idempotent: no worker is ever closed twice; a sweep calls
\* close() at most once on any handle; a registered room without participants is
\* unregistered by the next sweep and its worker then has been closed exactly once,
\* however many sweeps are pending; a code that is not registered is left as it is,
\* and a sweep that finds no room registered changes neither rooms nor handles.
C6_ClosedExactlyOnce ==
    /\ [](\A h \in DOMAIN handles : handles[h].kind = "worker" => handles[h].closes <= 1)
    /\ [][SweepStep =>
            /\ \A h \in DOMAIN handles : handles'[h].closes <= handles[h].closes + 1
            /\ \A roomId \in Codes :
                   IF Registered(rooms, roomId)
                   THEN rooms[roomId].participants = {} =>
                            /\ ~Registered(rooms', roomId)
                            /\ handles[rooms[roomId].worker].closes = 0
                            /\ handles'[rooms[roomId].worker].closes = 1
                   ELSE rooms'[roomId] = rooms[roomId]
            /\ (\A roomId \in Codes : ~Registered(rooms, roomId))
                   => UNCHANGED <<rooms, handles>>]_vars

\* a sweep has just closed a room while another sweep is still pending
C6_Witness ==
    /\ IsSweepLog
    /\ timers # <<>>
    /\ \E i \in DOMAIN log :
          /\ log[i].ev = "delete"
          /\ handles[log[i].id].closes = 1
          /\ ~Registered(rooms, log[i].code)

\* C7 as stated: within one sweep, each room whose creator is not a participant
\* has sessionClosed broadcast before the room is closed, and all of these rooms
\* are handled before any room is closed for having zero participants.
C7_ToldBeforeClosed ==
    [][SweepStep =>
         \A roomId \in Codes :
             (Registered(rooms, roomId)
              /\ rooms[roomId].creatorUid \notin rooms[roomId].participants)
                 => \E e \in Emits(log', "sessionClosed", roomId), d \in Deletes(log', roomId) :
                        /\ e < d
                        /\ \A k \in Infos(log', "closedEmpty") : d < k]_vars

\* C7 as the code has it: within one sweep, each room whose creator is not a
\* participant is closed and removed first and sessionClosed is broadcast to its
\* group right after, with no broadcast for it before the removal; all of these
\* rooms are handled before any room is closed for having zero participants.
C7_ClosedBeforeTold ==
    [][SweepStep =>
         \A roomId \in Codes :
             (Registered(rooms, roomId)
              /\ rooms[roomId].creatorUid \notin rooms[roomId].participants)
                 => /\ \E d \in Deletes(log', roomId), e \in Emits(log', "sessionClosed", roomId) :
                         /\ d < e
                         /\ \A k \in Infos(log', "closedEmpty") : e < k
                    /\ \A d \in Deletes(log', roomId), e \in Emits(log', "sessionClosed", roomId) :
                         d < e]_vars

\* one sweep has just closed two rooms whose creator was not a participant
C7_Witness ==
    /\ IsSweepLog
    /\ \A roomId \in Codes :
          /\ Deletes(log, roomId) # {}
          /\ Emits(log, "sessionClosed", roomId) # {}
    /\ Cardinality(Infos(log, "closedByHost")) = 2

\* the handles of the entries uid owns in the rooms rs
OwnedIds(rs, uid) ==
    LET owned == OwnedFrom(rs, uid, 1) IN {owned[i].id : i \in DOMAIN owned}

\* the handles of all the entries of one room
EntryIds(room) ==
    {room.transports[i].id : i \in DOMAIN room.transports}
        \cup {room.producers[i].id : i \in DOMAIN room.producers}
        \cup {room.consumers[i].id : i \in DOMAIN room.consumers}

\* C3: after a leave has run clearUserData for a uid (the uid was a participant of
\* some room), no transport, producer or consumer entry of that uid remains in any
\* room, and close() has been called exactly once on every handle it owned.
C3_ClearedExactlyOnce ==
    [][\A c \in Conns :
          (AuthDisconnectStep(c) /\ LeftRooms(rooms, SocketUserUid(c)) # <<>>) =>
              LET uid == SocketUserUid(c).uid
              IN  /\ OwnedIds(rooms', uid) = {}
                  /\ \A h \in OwnedIds(rooms, uid) : handles'[h].closes = 1]_vars

\* the suspended handler p settles in this step
Settles(p) == p \in pending /\ p \notin pending' /\ Cardinality(pending') < Cardinality(pending)

\* C4: however createTransport and produce of a uid interleave with clearUserData
\* of that uid, no producer is created on a transport that has been closed, and
\* no entry owned by the uid is recorded after clearUserData has finished.
C4_NothingAfterClear ==
    [][\A p \in pending :
          Settles(p) =>
              /\ (p.op = "produce" /\ Len(handles') > Len(handles))
                     => handles[p.id].closes = 0
              /\ p.cleared => OwnedIds(rooms', p.uid) \subseteq OwnedIds(rooms, p.uid)]_vars

\* C5: when a sweep closes a room, close() is called on the handle of every
\* transport, producer and consumer entry of the room, then on the worker, and
\* only then is the room removed from the registry.
C5_CloseAllThenRemove ==
    [][SweepStep =>
         \A roomId \in Codes :
             (Registered(rooms, roomId) /\ ~Registered(rooms', roomId)) =>
                 \E d \in Deletes(log', roomId), wk \in DOMAIN log' :
                     /\ log'[wk].ev = "close" /\ log'[wk].id = rooms[roomId].worker
                     /\ wk < d
                     /\ \A h \in EntryIds(rooms[roomId]) :
                            \E k \in DOMAIN log' :
                                log'[k].ev = "close" /\ log'[k].id = h /\ k < wk]_vars

C9_DisconnectLeaves ==
    [][\A c \in Conns :
          /\ AuthDisconnectStep(c) =>
                 LET uid == SocketUserUid(c).uid
                 IN  /\ \A r \in Codes : uid \notin rooms'[r].participants
                     /\ OwnedIds(rooms', uid) = {}
                     /\ \A h \in OwnedIds(rooms, uid) : handles'[h].closes >= 1
                     /\ timers' = Append(timers, user[c])
          /\ (user[c] = NoUser /\ log' # <<>> /\ log'[1].name = "disconnect"
                 /\ log'[1].to = {c})
                 => UNCHANGED <<rooms, handles, timers>>]_vars

\* C10: after joinRoom the caller's participant key is in the room, after leaveRoom
\* it is not: membership follows the most recent of the two events.
C10_MembershipFollowsEvents ==
    [][\A c \in Conns, roomId \in Codes :
          /\ (roomId \notin subs[c] /\ roomId \in subs'[c])
                 => SocketUserUid(c).uid \in rooms'[roomId].participants
          /\ (roomId \in subs[c] /\ roomId \notin subs'[c] /\ user'[c] # NoUser)
                 => SocketUserUid(c).uid \notin rooms'[roomId].participants]_vars

\* this step is the joinRoom handler run by connection c for code roomId
JoinRoomStep(c, roomId) ==
    /\ log' # <<>>
    /\ log'[1].ev = "run" /\ log'[1].name = "joinRoom"
    /\ log'[1].uid # NoUser
    /\ log'[1].to = {c} /\ log'[1].code = roomId

\* C11: joinRoom of a registered room adds the caller's uid to the room's
\* participants and broadcasts userJoined, carrying that uid, to every connection
\* subscribed to the room's group, the joining connection included.
C11_JoinAddsUidAndTellsAll ==
    [][\A c \in Conns, roomId \in Codes :
          (JoinRoomStep(c, roomId) /\ Registered(rooms, roomId)) =>
              /\ user[c] \in rooms'[roomId].participants
              /\ \E e \in Emits(log', "userJoined", roomId) :
                     /\ log'[e].to = Subscribers(subs', roomId)
                     /\ c \in log'[e].to
                     /\ log'[e].uid = user[c]]_vars

\* C15: joinRoom for a code that is not registered answers false and does nothing
\* else: the connection is not subscribed, no room, handle, timer or suspended
\* handler changes, and nothing is emitted.
C15_JoinUnknownRoomIsRefused ==
    [][\A c \in Conns, roomId \in Codes :
          (JoinRoomStep(c, roomId) /\ ~Registered(rooms, roomId)) =>
              /\ UNCHANGED <<rooms, subs, handles, pending, timers, user>>
              /\ log' = <<log'[1], EvCallback(c, "false", 0)>>]_vars

\* joinRoom has just been refused for an unregistered code while another room is
\* registered and has a participant
C15_Witness ==
    /\ log # <<>> /\ log[1].ev = "run" /\ log[1].name = "joinRoom"
    /\ ~Registered(rooms, log[1].code)
    /\ \E i \in DOMAIN log : log[i].ev = "callback" /\ log[i].name = "false"
    /\ \E r \in Codes : Registered(rooms, r) /\ rooms[r].participants # {}

\* this step is the createRoom handler run by connection c, drawing code roomId
CreateRoomStep(c, roomId) ==
    /\ log' # <<>>
    /\ log'[1].ev = "run" /\ log'[1].name = "createRoom"
    /\ log'[1].uid # NoUser
    /\ log'[1].to = {c} /\ log'[1].code = roomId

\* C12: createRoom for a code that is already registered answers with the
\* registered room and changes nothing: the registry and that room are as before,
\* no engine context is allocated and no allocation is started.
C12_CreateExistingChangesNothing ==
    [][\A c \in Conns, roomId \in Codes :
          (CreateRoomStep(c, roomId) /\ Registered(rooms, roomId)) =>
              /\ UNCHANGED <<rooms, handles, pending>>
              /\ log' = <<log'[1], EvCallback(c, "roomId", roomId)>>]_vars

\* createRoom has just been answered for a code that another user's room, which
\* has a participant, is registered under
C12_Witness ==
    /\ log # <<>> /\ log[1].ev = "run" /\ log[1].name = "createRoom"
    /\ Len(log) = 2 /\ log[2].ev = "callback"
    /\ Registered(rooms, log[1].code)
    /\ rooms[log[1].code].creatorUid # log[1].uid
    /\ rooms[log[1].code].participants # {}

\* C13: once the createRoom event has answered code c to caller u, a room is
\* registered under c and its creatorUid is u, also when the code drawn was
\* already in use.
C13_AnsweredRoomIsCallers ==
    (log # <<>> /\ log[1].ev = "run" /\ log[1].name \in {"createRoom", "createRoom.router"}) =>
        \A i \in DOMAIN log :
            (log[i].ev = "callback" /\ log[i].name = "roomId") =>
                /\ Registered(rooms, log[i].id)
                /\ rooms[log[i].id].creatorUid = log[1].uid

\* C14: when the engine rejects createWorker or createRouter, the registry is left
\* as it was and nothing built for the room remains: the worker already created
\* for it has been closed.
C14_FailedCreateLeavesNothing ==
    [][\A p \in pending :
          (/\ p.op = "createRoom" /\ p \notin pending'
           /\ log' # <<>>
           /\ \E i \in DOMAIN log' : log'[i].ev = "unhandledRejection") =>
              /\ rooms' = rooms
              /\ p.stage = "router" => handles'[p.worker].closes >= 1]_vars

\* a handler has been suspended at the engine in this step
Suspends(q) ==
    q \in pending' /\ q \notin pending /\ Cardinality(pending') > Cardinality(pending)

\* the entry of transport id in room, as a set (empty when there is none)
TransportsWithId(room, id) ==
    {room.transports[i] : i \in {j \in DOMAIN room.transports : room.transports[j].id = id}}

\* C16: a produce request reaches the engine only on a transport of the named room
\* that the caller created and that has direction send; on a missing transport,
\* another user's transport or a recv transport it fails and no producer is made.
C16_ProduceOnOwnSendTransport ==
    [][\A q \in pending' :
          (Suspends(q) /\ q.op = "produce") =>
              \E t \in TransportsWithId(rooms[q.code], q.id) :
                  /\ t.uid = q.uid
                  /\ handles[t.id].by = q.by
                  /\ t.direction = "send"]_vars

\* this step is the handler named name, run with the code and id given
HandlerStep(name, c, roomId, id) ==
    /\ log' # <<>>
    /\ log'[1].ev = "run" /\ log'[1].name = name
    /\ log'[1].uid # NoUser
    /\ log'[1].to = {c} /\ log'[1].code = roomId /\ log'[1].id = id

Answers(lg) == {i \in DOMAIN lg : lg[i].ev = "callback"}
EngineCalls(lg, name) == {i \in DOMAIN lg : lg[i].ev = "engine" /\ lg[i].name = name}

\* C17: when canConsume declines, consume answers with the cannot-consume error;
\* in that case, and when the caller has created no recv transport in the room or
\* the producer is not in the room, the answer is an error, transport.consume() is
\* not called, and no consumer entry, handle or suspended request is added.
C17_ConsumeRefusals ==
    [][\A c \in Conns, roomId \in Codes :
          (log' # <<>> /\ HandlerStep("consume", c, roomId, log'[1].id)) =>
              LET room == rooms[roomId]
                  declined == \E i \in EngineCalls(log', "canConsume") : log'[i].uid = "false"
                  noTransport ==
                      ~\E i \in DOMAIN room.transports :
                          /\ handles[room.transports[i].id].by = user[c]
                          /\ room.transports[i].direction = "recv"
                  noProducer ==
                      ~\E i \in DOMAIN room.producers : room.producers[i].id = log'[1].id
              IN  /\ declined =>
                         \E i \in Answers(log') : log'[i].name = "Cannot consume"
                  /\ (declined \/ noTransport \/ noProducer) =>
                         /\ UNCHANGED <<rooms, handles, pending>>
                         /\ EngineCalls(log', "consume") = {}
                         /\ Answers(log') # {}
                         /\ \A i \in Answers(log') : log'[i].name # "consumer"]_vars

\* C18: connect reaches the engine only for a transport that is in the named room
\* and was created by the caller; any other request is answered with an error
\* and transport.connect() is not called.
C18_ConnectOwnTransportOnly ==
    [][\A q \in pending' :
          (Suspends(q) /\ q.op = "connect") =>
              \E t \in TransportsWithId(rooms[q.code], q.id) :
                  /\ t.uid = q.uid
                  /\ handles[t.id].by = q.by]_vars

NewProducerTold(lg) == {i \in DOMAIN lg : lg[i].ev = "emit" /\ lg[i].name = "new-producer"}

\* C19: a produce that succeeds records the producer in the room it was asked
\* for (when that room is still registered) and emits new-producer with its id to
\* every connection subscribed to the room except the producing one; a produce
\* that fails, before or after the engine call, emits no new-producer.
C19_NewProducerToOthers ==
    [][/\ \A p \in pending :
             (/\ p.op = "produce" /\ p \notin pending'
              /\ log' # <<>> /\ log'[1].name = "produce.done") =>
                 IF Len(handles') > Len(handles)
                 THEN LET id == Len(handles')
                      IN  /\ rooms[p.code].worker = p.worker =>
                                 \E i \in DOMAIN rooms'[p.code].producers :
                                     /\ rooms'[p.code].producers[i].id = id
                                     /\ rooms'[p.code].producers[i].kind = p.dir
                          /\ \E e \in NewProducerTold(log') :
                                 /\ log'[e].id = id
                                 /\ log'[e].to = Subscribers(subs, p.code) \ {p.conn}
                          /\ \A e \in NewProducerTold(log') : p.conn \notin log'[e].to
                 ELSE NewProducerTold(log') = {} /\ rooms' = rooms
       /\ (log' # <<>> /\ log'[1].name = "produce") => NewProducerTold(log') = {}]_vars

\* a produce has just succeeded for a connection that is itself subscribed to the
\* room, and new-producer went to another subscribed connection
C19_Witness ==
    /\ log # <<>> /\ log[1].ev = "run" /\ log[1].name = "produce.done"
    /\ \E c \in log[1].to : log[1].code \in subs[c]
    /\ \E e \in NewProducerTold(log) : log[e].to # {}

\* C20: when a connection's recv transport has been created in a room, the
\* requester is sent new-producer for each producer already in the room.
C20_AnnouncesEveryProducer ==
    [][\A p \in pending :
          (/\ p.op = "createTransport" /\ p.dir = "recv" /\ p.conn # NoConn
           /\ p \notin pending' /\ Len(handles') > Len(handles)
           /\ log' # <<>> /\ log'[1].name = "createTransport.done") =>
              \A i \in DOMAIN rooms[p.code].producers :
                  \E e \in NewProducerTold(log') :
                      /\ log'[e].id = rooms[p.code].producers[i].id
                      /\ p.conn \in log'[e].to]_vars

\* C21: a signaling event (createRoom, joinRoom, leaveRoom, chat, createTransport,
\* connectTransport, produce, consume) from a connection that has not authenticated
\* changes neither rooms, engine handles, subscriptions, suspended requests nor
\* timers, emits nothing and does not invoke the callback.
C21_UnauthenticatedIsDeclined ==
    [][\A c \in Conns :
          (/\ user[c] = NoUser
           /\ log' # <<>>
           /\ log'[1].ev = "run" /\ log'[1].name \in Signaling /\ log'[1].to = {c}) =>
              /\ UNCHANGED <<rooms, handles, user, subs, timers, pending>>
              /\ \A i \in DOMAIN log' : log'[i].ev \notin {"emit", "callback"}]_vars

\* a connection that has not authenticated has just asked for a transport in a
\* registered room
C21_Witness ==
    /\ log # <<>>
    /\ log[1].ev = "run" /\ log[1].name = "createTransport" /\ log[1].uid = NoUser
    /\ Registered(rooms, log[1].code)

\* C22: no handler lets a failure escape as an unhandled rejection, and a
\* createRoom whose engine call (createWorker or createRouter) rejects is answered
\* with an error through its callback.
C22_FailuresAreAnswered ==
    [][/\ \A i \in DOMAIN log' : log'[i].ev # "unhandledRejection"
       /\ \A p \in pending :
             (/\ p.op = "createRoom" /\ p \notin pending'
              /\ log' # <<>> /\ log'[1].name \in {"createRoom.worker", "createRoom.router"}
              /\ handles' = handles /\ rooms' = rooms) =>
                 \E i \in Answers(log') : log'[i].name = "error"]_vars

\* C28: a room registered under a code is never replaced by the registration of
\* another createRoom call for that code (which would leave the worker of the
\* replaced room allocated without a registered room).
C28_RegistrationNeverOverwrites ==
    [][\A roomId \in Codes :
          (Registered(rooms, roomId) /\ Registered(rooms', roomId)) =>
              rooms'[roomId].worker = rooms[roomId].worker]_vars

\* the close() that threw in the step just taken was called while closing room
Threw(room) ==
    \E i \in DOMAIN log' : log'[i].ev = "throw" /\ ThrowsIn(room, log'[i].id)

\* C23: a close() that throws while a sweep closes one room does not keep the
\* sweep from the other rooms: every other room that is registered and host-less
\* or empty when the sweep fires is unregistered by that sweep.
C23_SweepSurvivesCloseFailure ==
    [][SweepStep =>
         \A roomId \in Codes :
             (/\ Registered(rooms, roomId)
              /\ \/ rooms[roomId].creatorUid \notin rooms[roomId].participants
                 \/ rooms[roomId].participants = {}
              /\ ~Threw(rooms[roomId])) =>
                 ~Registered(rooms', roomId)]_vars

\* connection c has joined roomId: joinRoom subscribed its socket, or the uid of
\* its user is a participant
HasJoined(c, roomId) ==
    roomId \in subs[c] \/ user[c] \in rooms[roomId].participants

\* C24: a createTransport, produce or consume reaches the engine (and so can
\* record an entry) only when the requesting connection has joined the room it
\* names; requested by a user who has not joined, it records nothing.
C24_EntriesOnlyForMembers ==
    [][\A q \in pending' :
          (/\ Suspends(q)
           /\ q.op \in {"createTransport", "produce", "consume"}
           /\ q.conn \in Conns) =>
              HasJoined(q.conn, q.code)]_vars

\* the ids of the entries of room
EntriesOf(room) ==
    {room.transports[i].id : i \in DOMAIN room.transports}
        \cup {room.producers[i].id : i \in DOMAIN room.producers}
        \cup {room.consumers[i].id : i \in DOMAIN room.consumers}

\* C25: every transport, producer or consumer handle that has not been closed is
\* an entry of a room that is registered.
C25_NoEntityOutlivesRoom ==
    \A h \in DOMAIN handles :
        (handles[h].kind \in {"transport", "producer", "consumer"} /\ handles[h].closes = 0) =>
            \E roomId \in Codes :
                Registered(rooms, roomId) /\ h \in EntriesOf(rooms[roomId])

\* C26: no participant key (a uid, or the undefined that join() records) is in the
\* participants of more than one registered room.
C26_OneRoomPerUid ==
    \A u \in Uids \cup {Undefined} :
        Cardinality({roomId \in Codes :
                        Registered(rooms, roomId) /\ u \in rooms[roomId].participants}) <= 1

\* C27: once a connection has an identity, no step gives it another one.
C27_IdentityIsFixed ==
    [][\A c \in Conns :
          (user[c] # NoUser /\ user'[c] # NoUser) => user'[c] = user[c]]_vars

\* C29: a sweep scheduled by a user other than the creator does not close a room
\* that has no participant and no subscriber (in IdleSpec nobody ever joins, so
\* no participant has left any room).
C29_SweepSparesUnleftRooms ==
    [][SweepStep =>
         \A roomId \in Codes :
             (/\ Registered(rooms, roomId)
              /\ rooms[roomId].participants = {}
              /\ Subscribers(subs, roomId) = {}
              /\ Head(timers) # rooms[roomId].creatorUid) =>
                 Registered(rooms', roomId)]_vars

\* C30: when a connection that joined a room disconnects while another connection
\* of the same user is joined to that room, the participants of the room stay as
\* they are.
C30_OtherSocketKeepsMembership ==
    [][\A c \in Conns :
          AuthDisconnectStep(c) =>
              \A roomId \in Codes :
                  (/\ Registered(rooms, roomId)
                   /\ roomId \in subs[c]
                   /\ \E d \in Conns \ {c} :
                          /\ user[d] = user[c]
                          /\ roomId \in subs[d]
                          /\ SocketUserUid(d).uid \in rooms[roomId].participants) =>
                      rooms'[roomId].participants = rooms[roomId].participants]_vars

\* C31: every consumer entry of a registered room references a producer that is
\* in the producers of that room.
C31_ConsumersReferenceProducers ==
    \A roomId \in Codes :
        Registered(rooms, roomId) =>
            \A i \in DOMAIN rooms[roomId].consumers :
                \E j \in DOMAIN rooms[roomId].producers :
                    rooms[roomId].producers[j].id = rooms[roomId].consumers[i].producerId

\* C32: a request's acknowledgement callback is invoked at most once: the step
\* that suspends a request at the engine answers nothing, and the step that ends it
\* answers at most once, also when a createTransport that has answered with the
\* transport parameters fails to announce the existing producer.
C32_CallbackAtMostOnce ==
    [][log' # <<>> =>
          /\ Cardinality(Answers(log')) <= 1
          /\ \A q \in pending' : Suspends(q) => Answers(log') = {}]_vars

\* C33: a connection is subscribed to the broadcast group of a code only while a
\* room is registered under that code: once a room is closed, no connection stays
\* subscribed to its code.
C33_SubscribedOnlyToRegisteredRooms ==
    \A c \in Conns : \A roomId \in subs[c] : Registered(rooms, roomId)

====
